---- MODULE Spec2Model ----
(***************************************************************************)
(* The manila-plugin interface: the subordinate end (provides.py,          *)
(* ManilaPluginProvides, one GLOBAL conversation) and the principal end    *)
(* (requires.py, ManilaPluginRequires, one conversation per remote unit).  *)
(*                                                                         *)
(* Python values are modelled as follows.                                  *)
(*   None            the empty tuple << >>; a present value x is << x >>   *)
(*   dict            a sequence of << key, value >> pairs in insertion     *)
(*                   order, keys distinct; equality of dicts (DictEq)      *)
(*                   ignores the order, as Python's does                   *)
(*   other scalars   True and 1 each stand as a string of their own that   *)
(*                   no modelled str equals (PyTrue, PyOne)                *)
(*   JSON text       a sequence of string tokens; json.dumps writes the    *)
(*                   pairs in insertion order, json.loads reads them back  *)
(*                   in text order; two texts are compared token by token  *)
(*   relation states a set of state names per role (the aggregate flags)   *)
(***************************************************************************)
EXTENDS Naturals, Sequences, FiniteSets

\* ------------------------------------------------------------------ bounds

\* Number of distinct values a field of the authentication data can take.
NumAuthVals == 2
\* Number of distinct non-empty plugin names.
NumNames == 2
\* Number of distinct configuration fragments a plugin can send.
NumFragments == 2

ValPool == << "a", "b", "c", "d" >>
NamePool == << "backendA", "backendB", "backendC", "backendD" >>
FragPool == << "x", "y", "z", "w" >>

\* The remote units of the principal's relation, in a fixed numbering.
Units == { "plugin/0", "plugin/1" }

\* ------------------------------------------------------------ Python values

None == << >>
Some(x) == << x >>
Val(o) == o[1]

RECURSIVE DictKeysFrom(_, _)
DictKeysFrom(d, i) ==
    IF i > Len(d) THEN {} ELSE { d[i][1] } \cup DictKeysFrom(d, i + 1)

\* dict.keys(), a set-like view.
DictKeys(d) == DictKeysFrom(d, 1)

\* d[k] for a key the dict holds.
DictGet(d, k) == d[CHOOSE i \in DOMAIN d : d[i][1] = k][2]

\* d1 == d2 on dicts: the same keys with the same values, in any order.
DictEq(d1, d2) ==
    /\ DictKeys(d1) = DictKeys(d2)
    /\ \A k \in DictKeys(d1) : DictGet(d1, k) = DictGet(d2, k)

\* result[name] = data on a dict: an existing key keeps its place, a new key
\* is appended.
DictSet(d, k, v) ==
    IF k \in DictKeys(d)
    THEN [ i \in DOMAIN d |-> IF d[i][1] = k THEN << k, v >> ELSE d[i] ]
    ELSE Append(d, << k, v >>)

\* --------------------------------------------------------------------- JSON

\* A JSON text is a sequence of tokens, each a string: the punctuation marks
\* {, }, : and , stand for themselves, and a string literal is the mark "
\* followed by its characters as one token.
Quote == "\""

JsonString(str) == << Quote, str >>

\* The Python values True and 1; every other scalar of the model is a str.
PyTrue == "<True>"
PyOne == "<1>"
NotStr == { PyTrue, PyOne }

\* The JSON literal json.dumps writes for a value that is not a str, and the
\* value json.loads reads from a literal.
JsonLiteral(v) == IF v = PyTrue THEN "true" ELSE "1"
FromJsonLiteral(token) == IF token = "true" THEN PyTrue ELSE PyOne

\* A key is written as a JSON string: a key that is not a str is written as
\* the string of its literal.
JsonKey(k) == JsonString(IF k \in NotStr THEN JsonLiteral(k) ELSE k)

\* A value is written as a string literal or as a bare literal token.
JsonValue(v) == IF v \in NotStr THEN << JsonLiteral(v) >> ELSE JsonString(v)

RECURSIVE DumpsPairs(_, _)
DumpsPairs(d, i) ==
    IF i > Len(d) THEN << >>
    ELSE (IF i > 1 THEN << "," >> ELSE << >>)
         \o JsonKey(d[i][1]) \o << ":" >> \o JsonValue(d[i][2])
         \o DumpsPairs(d, i + 1)

\* json.dumps({"data": value}) for a dict of scalars: the members are written
\* in the dict's insertion order.
json_dumps(value) ==
    << "{" >> \o JsonString("data") \o << ":", "{" >>
    \o DumpsPairs(value, 1)
    \o << "}", "}" >>

\* The members of a JSON object of scalars from token i on, in text order:
\* a member is " key : " value or " key : literal, and members are separated
\* by commas. A key is read as a str.
RECURSIVE LoadsPairs(_, _)
LoadsPairs(text, i) ==
    IF text[i] = "}" THEN << >>
    ELSE LET j == IF text[i] = "," THEN i + 1 ELSE i
         IN  IF text[j + 3] = Quote
             THEN << << text[j + 1], text[j + 4] >> >>
                  \o LoadsPairs(text, j + 5)
             ELSE << << text[j + 1], FromJsonLiteral(text[j + 3]) >> >>
                  \o LoadsPairs(text, j + 4)

\* json.loads(text)["data"]: the members of the inner object, which follows
\* the four tokens { " data : of the envelope.
json_loads(text) == LoadsPairs(text, 6)

\* ------------------------------------------------------------ input domains

AuthVals == { ValPool[i] : i \in 1..NumAuthVals }
Names == { NamePool[i] : i \in 1..NumNames }
Fragments == { FragPool[i] : i \in 1..NumFragments }

\* The dicts passed as authentication data: two fields of the eight, with
\* each value of the username; one of them also with its fields inserted in
\* the other order, and once with a field missing.
AuthValues ==
    { << << "username", v >>, << "password", "pw" >> >> : v \in AuthVals }
    \cup { << << "password", "pw" >>, << "username", ValPool[1] >> >> }
    \cup { << << "username", ValPool[1] >> >> }

\* The _authentication_data texts the principal can have written.
AuthEnvelopes == { json_dumps(value) : value \in AuthValues }

\* The configuration data a plugin sends: config file path -> content.
ConfigValues == { << << "/etc/manila/manila.conf", f >> >> : f \in Fragments }
ConfigEnvelopes == { json_dumps(data) : data \in ConfigValues }

\* The data a plugin charm passes to the configuration_data setter: the
\* documented format (a "complete" flag and config file path -> content),
\* the fragments alone, and a dict whose key is an int.
DataValues ==
    ConfigValues
    \cup { << << "complete", PyTrue >>, d[1] >> : d \in ConfigValues }
    \cup { << << PyOne, FragPool[1] >> >> }

\* None or a plugin name.
PluginNames == { None } \cup { Some(n) : n \in Names }

\* The name passed to set_authentication_data: None or a plugin name (the
\* names being interchangeable, the first).
TargetNames == { None, Some(NamePool[1]) }

\* What a plugin can have in _name: nothing, the empty string, or a name.
NameValues == { None, Some("") } \cup { Some(n) : n \in Names }

\* ------------------------------------------------------------------- state

VARIABLES
    \* provides.py: the single GLOBAL conversation of the subordinate
    pStates,        \* the relation states set: connected, available, changed
    pRemoteAuth,    \* remote _authentication_data, as the accessor reads it
    pLocalAuth,     \* local _authentication_data (the cache of update_status)
    pLocal,         \* local _name and _configuration_data (set_local)
    pSent,          \* the _name and _configuration_data written by set_remote
    pLast,          \* the operation that ran last on the subordinate
    \* requires.py: the principal and its conversations, one per remote unit
    rStates,        \* the relation states set: connected, available, changed
    conversations,  \* self.conversations(): the units' conversations in order
    scope,          \* conversation.scope: None once the conversation has gone
    remote,         \* per unit, the remote _name and _configuration_data
    local,          \* per unit, the local _available and _authentication_data
    sent,           \* per unit, the _authentication_data written by set_remote
    rLast           \* the operation that ran last on the principal

pVars == << pStates, pRemoteAuth, pLocalAuth, pLocal, pSent, pLast >>
rVars == << rStates, conversations, scope, remote, local, sent, rLast >>
vars == << pVars, rVars >>

Init ==
    /\ pStates = {}
    /\ pRemoteAuth = None
    /\ pLocalAuth = None
    /\ pLocal = [ _name |-> None, _configuration_data |-> None ]
    /\ pSent = [ _name |-> None, _configuration_data |-> None ]
    /\ pLast = [ op |-> "init" ]
    /\ rStates = {}
    /\ conversations = << >>
    /\ scope = [ u \in Units |-> None ]
    /\ remote = [ u \in Units |-> [ _name |-> None, _configuration_data |-> None ] ]
    /\ local = [ u \in Units |-> [ _available |-> FALSE, _authentication_data |-> None ] ]
    /\ sent = [ u \in Units |-> None ]
    /\ rLast = [ op |-> "init", value |-> << >>, name |-> None,
                 repeat |-> FALSE ]

\* ----------------------------------------------- provides.py: the subordinate

\* A variant of update_status that compares the stored text with the received
\* one before looking whether anything was received.
Provides_update_status_compare_first(states, local_auth_data, auth_data) ==
    IF local_auth_data = None \/ local_auth_data # auth_data
    THEN [ states |-> (IF auth_data # None THEN states \cup { "available" }
                                          ELSE states) \cup { "changed" },
           local_auth_data |-> auth_data ]
    ELSE [ states |-> IF auth_data # None THEN states \cup { "available" }
                                          ELSE states,
           local_auth_data |-> local_auth_data ]

\* A variant of update_status that sets changed whenever data is present.
Provides_update_status_always_changed(states, local_auth_data, auth_data) ==
    IF auth_data # None
    THEN [ states |-> states \cup { "available", "changed" },
           local_auth_data |-> auth_data ]
    ELSE [ states |-> states, local_auth_data |-> local_auth_data ]

\* A variant of update_status that removes changed when nothing is received.
Provides_update_status_reset(states, local_auth_data, auth_data) ==
    IF auth_data # None
    THEN IF local_auth_data = None \/ local_auth_data # auth_data
         THEN [ states |-> states \cup { "available", "changed" },
                local_auth_data |-> auth_data ]
         ELSE [ states |-> states \cup { "available" },
                local_auth_data |-> local_auth_data ]
    ELSE [ states |-> states \ { "changed" },
           local_auth_data |-> local_auth_data ]

\* update_status: with authentication data on the relation, set available;
\* set changed and store the text when no text is stored or it differs.
\* The result is the states and the local _authentication_data afterwards.
Provides_update_status(states, local_auth_data, auth_data) ==
    IF auth_data # None
    THEN IF local_auth_data = None \/ local_auth_data # auth_data
         THEN [ states |-> states \cup { "available", "changed" },
                local_auth_data |-> auth_data ]
         ELSE [ states |-> states \cup { "available" },
                local_auth_data |-> local_auth_data ]
    ELSE [ states |-> states, local_auth_data |-> local_auth_data ]

\* The relation-joined hook.
Provides_joined ==
    LET r == Provides_update_status(pStates \cup { "connected" },
                                    pLocalAuth, pRemoteAuth)
    IN  /\ pStates' = r.states
        /\ pLocalAuth' = r.local_auth_data
        /\ pLast' = [ op |-> "joined" ]
        /\ UNCHANGED << pRemoteAuth, pLocal, pSent, rVars >>

\* The relation-changed hook.
Provides_changed ==
    LET r == Provides_update_status(pStates, pLocalAuth, pRemoteAuth)
    IN  /\ pStates' = r.states
        /\ pLocalAuth' = r.local_auth_data
        /\ pLast' = [ op |-> "changed" ]
        /\ UNCHANGED << pRemoteAuth, pLocal, pSent, rVars >>

\* A variant of departed that leaves the changed state alone.
Provides_departed_states_keep_changed(states) ==
    states \ { "connected", "available" }

\* The states left by the relation-broken and relation-departed hook.
Provides_departed_states(states) ==
    states \ { "connected", "available", "changed" }

Provides_departed ==
    /\ pStates' = Provides_departed_states(pStates)
    /\ pLast' = [ op |-> "departed" ]
    /\ UNCHANGED << pRemoteAuth, pLocalAuth, pLocal, pSent, rVars >>

\* A variant of clear_changed whose except branch drops available.
Provides_clear_changed_states_drop(states, raised) ==
    IF raised THEN states \ { "available" } ELSE states \ { "changed" }

\* Lines 96-101: remove_state either removes changed or raises ValueError
\* (the scope is not found), which is caught and leaves the states alone.
Provides_clear_changed_states(states, raised) ==
    IF raised THEN states ELSE states \ { "changed" }

\* clear_changed, with either outcome of remove_state.
Provides_clear_changed ==
    /\ \E raised \in BOOLEAN :
          /\ pStates' = Provides_clear_changed_states(pStates, raised)
          /\ pLast' = [ op |-> "clear_changed", raised |-> raised ]
    /\ UNCHANGED << pRemoteAuth, pLocalAuth, pLocal, pSent, rVars >>

\* The principal's unit writes (or the relation loses) _authentication_data.
Provides_remote_write ==
    /\ \E text \in { None } \cup { Some(e) : e \in AuthEnvelopes } :
          /\ text # pRemoteAuth
          /\ pRemoteAuth' = text
    /\ pLast' = [ op |-> "remote" ]
    /\ UNCHANGED << pStates, pLocalAuth, pLocal, pSent, rVars >>

\* Lines 103-107, the name property: the local _name.
Provides_name(loc) == loc._name

\* Lines 116-118, the name setter: the name goes to the local and to the
\* remote field. The conversation the accessors use exists while the relation
\* is connected.
Provides_set_name(name) ==
    /\ "connected" \in pStates
    /\ pLocal' = [ pLocal EXCEPT !._name = name ]
    /\ pSent' = [ pSent EXCEPT !._name = name ]
    /\ pLast' = [ op |-> "name" ]
    /\ UNCHANGED << pStates, pRemoteAuth, pLocalAuth, rVars >>

\* Lines 149-156, the configuration_data property: None with nothing stored,
\* else the data of the stored envelope.
Provides_configuration_data(loc) ==
    IF loc._configuration_data = None THEN None
    ELSE Some(json_loads(Val(loc._configuration_data)))

\* A variant of the setter's set_local that stores nothing.
Provides_set_local_configuration_data_skip(loc, data) == loc

\* Lines 184-185, set_local of the configuration_data setter.
Provides_set_local_configuration_data(loc, data) ==
    [ loc EXCEPT !._configuration_data = Some(json_dumps(data)) ]

\* A variant of the setter's set_remote that sends the envelope of an empty
\* dict.
Provides_set_remote_configuration_data_empty(rem, data) ==
    [ rem EXCEPT !._configuration_data = Some(json_dumps(<< >>)) ]

\* Lines 186-187, set_remote of the configuration_data setter.
Provides_set_remote_configuration_data(rem, data) ==
    [ rem EXCEPT !._configuration_data = Some(json_dumps(data)) ]

\* Lines 158-187, the configuration_data setter.
Provides_set_configuration_data(data) ==
    /\ "connected" \in pStates
    /\ pLocal' = Provides_set_local_configuration_data(pLocal, data)
    /\ pSent' = Provides_set_remote_configuration_data(pSent, data)
    /\ pLast' = [ op |-> "configuration_data", data |-> data ]
    /\ UNCHANGED << pStates, pRemoteAuth, pLocalAuth, rVars >>

NextProvides ==
    \/ Provides_joined
    \/ Provides_changed
    \/ Provides_departed
    \/ Provides_clear_changed
    \/ Provides_remote_write

SpecProvides == Init /\ [][NextProvides]_vars

\* ------------------------------------------------- the subordinate's claims

ProvidesRecomputed == pLast.op \in { "joined", "changed" }

\* C1: on the subordinate, in every state reached by joined, changed,
\* departed and clear_changed events and remote writes of the authentication
\* data, the changed state is set only if the available state is set.
C1_ProvidesChangedImpliesAvailable ==
    "changed" \in pStates => "available" \in pStates

\* C1 witness: update_status has just set changed, and available with it.
C1_Witness ==
    /\ ProvidesRecomputed
    /\ { "changed", "available" } \subseteq pStates
    /\ pLocalAuth = pRemoteAuth

\* C8: an update_status with authentication data present sets changed and
\* stores the received text exactly when no text is stored or the stored text
\* differs from the received one; with the stored text equal to the received
\* one it leaves changed and the stored text as they were, so a changed state
\* that was cleared stays absent while the remote data stays the same.
C8_ProvidesChangeDetection ==
    [][ (pLast'.op \in { "joined", "changed" } /\ pRemoteAuth # None) =>
          IF pLocalAuth = None \/ pLocalAuth # pRemoteAuth
          THEN "changed" \in pStates' /\ pLocalAuth' = pRemoteAuth
          ELSE /\ ("changed" \in pStates') = ("changed" \in pStates)
               /\ pLocalAuth' = pLocalAuth ]_vars

\* C8 witness: a recompute over unchanged data has left a cleared changed
\* state absent: data is present and stored, available is set, changed is not.
C8_Witness ==
    /\ ProvidesRecomputed
    /\ pRemoteAuth # None
    /\ pLocalAuth = pRemoteAuth
    /\ "available" \in pStates
    /\ "changed" \notin pStates

\* C9 (as claimed): whenever an update_status takes the available state from
\* absent to set, the changed state is set when it returns.
C9_AvailableTransitionSetsChanged ==
    [][ ( /\ pLast'.op \in { "joined", "changed" }
          /\ "available" \notin pStates
          /\ "available" \in pStates' ) => "changed" \in pStates' ]_vars

\* ------------------------------------------------ requires.py: the principal

\* The value of rLast after an operation that is no set_authentication_data.
Op(name) ==
    [ op |-> name, value |-> << >>, name |-> None, repeat |-> FALSE ]

\* conversation.scope is None: the conversation has gone away.
Gone(u) == scope[u] = None

\* A variant of line 100 that looks at the name alone.
Requires_conversation_available_name_only(name, configuration_data) ==
    name # None

\* Line 100: a conversation is available with a name and configuration data.
Requires_conversation_available(name, configuration_data) ==
    name # None /\ configuration_data # None

\* A variant of the loop of update_status that counts a change without
\* storing the new availability.
RECURSIVE Requires_update_status_loop_nostore(_, _, _, _, _)
Requires_update_status_loop_nostore(convs, scp, rem, i, acc) ==
    IF i > Len(convs) THEN acc
    ELSE LET u == convs[i] IN
         IF scp[u] = None
         THEN Requires_update_status_loop_nostore(convs, scp, rem, i + 1, acc)
         ELSE LET conversation_available == acc.local[u]._available
                  available ==
                      Requires_conversation_available(
                          rem[u]._name, rem[u]._configuration_data)
                  differs == available # conversation_available
              IN  Requires_update_status_loop_nostore(convs, scp, rem, i + 1,
                    [ count_available |->
                          acc.count_available + (IF available THEN 1 ELSE 0),
                      count_changed |->
                          acc.count_changed + (IF differs THEN 1 ELSE 0),
                      count_conversations |-> acc.count_conversations + 1,
                      local |-> acc.local ])

\* Lines 86-108, the loop of update_status from conversation i on.  acc holds
\* the three counters and the local data as updated so far.
RECURSIVE Requires_update_status_loop(_, _, _, _, _)
Requires_update_status_loop(convs, scp, rem, i, acc) ==
    IF i > Len(convs) THEN acc
    ELSE LET u == convs[i] IN
         IF scp[u] = None
         THEN Requires_update_status_loop(convs, scp, rem, i + 1, acc)
         ELSE LET conversation_available == acc.local[u]._available
                  available ==
                      Requires_conversation_available(
                          rem[u]._name, rem[u]._configuration_data)
                  differs == available # conversation_available
              IN  Requires_update_status_loop(convs, scp, rem, i + 1,
                    [ count_available |->
                          acc.count_available + (IF available THEN 1 ELSE 0),
                      count_changed |->
                          acc.count_changed + (IF differs THEN 1 ELSE 0),
                      count_conversations |-> acc.count_conversations + 1,
                      local |->
                          IF differs
                          THEN [ acc.local EXCEPT ![u]._available = available ]
                          ELSE acc.local ])

\* A variant of lines 110-119 that removes only connected when no
\* conversation is left.
Requires_update_status_states_keep_changed(states, count_changed, count_available, count_conversations) ==
    LET s1 == IF count_changed > 0 THEN states \cup { "changed" } ELSE states
        s2 == IF count_available > 0 THEN s1 \cup { "available" }
                                     ELSE s1 \ { "available" }
    IN  IF count_conversations = 0 THEN s2 \ { "connected" } ELSE s2

\* A variant of lines 110-119 that removes changed when no conversation's
\* availability has changed.
Requires_update_status_states_this_cycle(states, count_changed, count_available, count_conversations) ==
    LET s1 == IF count_changed > 0 THEN states \cup { "changed" }
                                   ELSE states \ { "changed" }
        s2 == IF count_available > 0 THEN s1 \cup { "available" }
                                     ELSE s1 \ { "available" }
    IN  IF count_conversations = 0 THEN s2 \ { "connected", "changed" } ELSE s2

\* Lines 110-119: the relation states after the loop.
Requires_update_status_states(states, count_changed, count_available, count_conversations) ==
    LET s1 == IF count_changed > 0 THEN states \cup { "changed" } ELSE states
        s2 == IF count_available > 0 THEN s1 \cup { "available" }
                                     ELSE s1 \ { "available" }
    IN  IF count_conversations = 0 THEN s2 \ { "connected", "changed" } ELSE s2

\* update_status: the states and the local data afterwards.
Requires_update_status(states, convs, scp, rem, loc) ==
    LET acc == Requires_update_status_loop(convs, scp, rem, 1,
                   [ count_available |-> 0, count_changed |-> 0,
                     count_conversations |-> 0, local |-> loc ])
    IN  [ states |-> Requires_update_status_states(
                         states, acc.count_changed, acc.count_available,
                         acc.count_conversations),
          local |-> acc.local ]

\* The relation-joined hook for unit u, whose conversation is created (or
\* taken up again) by the hook's context.
Requires_joined(u) ==
    /\ Gone(u)
    /\ LET convs == IF \E i \in DOMAIN conversations : conversations[i] = u
                    THEN conversations ELSE Append(conversations, u)
           scp == [ scope EXCEPT ![u] = Some(u) ]
           r == Requires_update_status(rStates \cup { "connected" },
                                       convs, scp, remote, local)
       IN  /\ conversations' = convs
           /\ scope' = scp
           /\ rStates' = r.states
           /\ local' = r.local
    /\ rLast' = Op("joined")
    /\ UNCHANGED << remote, sent, pVars >>

\* The relation-changed hook.
Requires_changed ==
    LET r == Requires_update_status(rStates, conversations, scope, remote, local)
    IN  /\ rStates' = r.states
        /\ local' = r.local
        /\ rLast' = Op("changed")
        /\ UNCHANGED << conversations, scope, remote, sent, pVars >>

\* The relation-broken and relation-departed hook.
Requires_departed ==
    LET r == Requires_update_status(rStates, conversations, scope, remote, local)
    IN  /\ rStates' = r.states
        /\ local' = r.local
        /\ rLast' = Op("departed")
        /\ UNCHANGED << conversations, scope, remote, sent, pVars >>

\* Lines 123-128: remove_state either removes changed or raises ValueError,
\* which is caught and leaves the states alone.
Requires_clear_changed_states(states, raised) ==
    IF raised THEN states ELSE states \ { "changed" }

\* clear_changed, with either outcome of remove_state.
Requires_clear_changed ==
    /\ \E raised \in BOOLEAN :
          /\ rStates' = Requires_clear_changed_states(rStates, raised)
          /\ rLast' = [ op |-> "clear_changed", value |-> << >>,
                        name |-> None, repeat |-> FALSE, raised |-> raised ]
    /\ UNCHANGED << conversations, scope, remote, local, sent, pVars >>

\* The environment: unit u leaves the relation.  Its conversation reads a
\* scope of None from then on and the relation data of both sides is gone;
\* the local data of the conversation stays in the unit's store.
ConversationGone(u) ==
    /\ ~Gone(u)
    /\ scope' = [ scope EXCEPT ![u] = None ]
    /\ remote' = [ remote EXCEPT
                     ![u] = [ _name |-> None, _configuration_data |-> None ] ]
    /\ sent' = [ sent EXCEPT ![u] = None ]
    /\ rLast' = Op("environment")
    /\ UNCHANGED << rStates, conversations, local, pVars >>

\* The environment: the plugin of unit u sets its _name to n (None: unsets).
RemoteName(u, n) ==
    /\ ~Gone(u)
    /\ n # remote[u]._name
    /\ remote' = [ remote EXCEPT ![u]._name = n ]
    /\ rLast' = Op("environment")
    /\ UNCHANGED << rStates, conversations, scope, local, sent, pVars >>

\* The environment: the plugin of unit u sets its _configuration_data to c
\* (None: withdraws it).
RemoteConfiguration(u, c) ==
    /\ ~Gone(u)
    /\ c # remote[u]._configuration_data
    /\ remote' = [ remote EXCEPT ![u]._configuration_data = c ]
    /\ rLast' = Op("environment")
    /\ UNCHANGED << rStates, conversations, scope, local, sent, pVars >>

NextRequires ==
    \/ \E u \in Units : Requires_joined(u)
    \/ Requires_changed
    \/ Requires_departed
    \/ Requires_clear_changed
    \/ \E u \in Units : ConversationGone(u)
    \/ \E u \in Units, n \in NameValues : RemoteName(u, n)
    \/ \E u \in Units, c \in { None } \cup { Some(e) : e \in ConfigEnvelopes } :
          RemoteConfiguration(u, c)

SpecRequires == Init /\ [][NextRequires]_vars

\* --------------------------------------------- the principal's status claims

RequiresRecomputed == rLast.op \in { "joined", "changed", "departed" }

\* The conversations update_status counts: in the list, with a scope.
Live == { u \in Units : /\ \E i \in DOMAIN conversations : conversations[i] = u
                        /\ ~Gone(u) }

\* The live conversations with a remote name and remote configuration data,
\* neither of them None.
LiveAvailable ==
    { u \in Live : /\ remote[u]._name # None
                   /\ remote[u]._configuration_data # None }

\* C2 (as claimed): on the principal, whenever the changed state is set when
\* update_status returns, the available state is set as well.
C2_RequiresChangedImpliesAvailable ==
    (RequiresRecomputed /\ "changed" \in rStates) => "available" \in rStates

\* C3: after an update_status that finds no live conversation, the connected,
\* changed and available states are all absent, whatever the states and the
\* per-conversation caches were before; a conversation that has gone away is
\* not counted.
C3_NoLiveConversationClears ==
    (RequiresRecomputed /\ Live = {}) => rStates = {}

\* C3 witness: update_status has run over a list whose conversations have all
\* gone away, one of them with a stale cache of having been available.
C3_Witness ==
    /\ rLast.op = "departed"
    /\ conversations # << >>
    /\ Live = {}
    /\ \E u \in Units : local[u]._available
    /\ rStates = {}

\* C4: right after every update_status the available state is set if and only
\* if some live conversation has a remote name that is not None and remote
\* configuration data that is not None.
C4_AvailableIffSomeConversationAvailable ==
    RequiresRecomputed => (("available" \in rStates) <=> (LiveAvailable # {}))

\* C4 witness: update_status has set available with one live conversation
\* available and another live one not.
C4_Witness ==
    /\ RequiresRecomputed
    /\ "available" \in rStates
    /\ LiveAvailable # {}
    /\ Live \ LiveAvailable # {}

\* ------------------------------------------------------ the principal's queries

\* Truth value of an optional string: None and "" are false.
TruthyString(o) == o # None /\ Val(o) # ""

\* Truth value of an optional JSON text: None and the empty text are false.
TruthyText(o) == o # None /\ Val(o) # << >>

\* A variant of the loop of get_configuration_data that keeps the first
\* conversation's data when a name comes again.
RECURSIVE Requires_get_configuration_data_loop_first(_, _, _)
Requires_get_configuration_data_loop_first(name, i, result) ==
    IF i > Len(conversations) THEN result
    ELSE LET u == conversations[i]
             _name == remote[u]._name
             config == remote[u]._configuration_data
         IN  IF Gone(u) \/ (TruthyString(name) /\ _name # name)
             THEN Requires_get_configuration_data_loop_first(name, i + 1, result)
             ELSE Requires_get_configuration_data_loop_first(name, i + 1,
                    IF TruthyString(_name) /\ TruthyText(config)
                       /\ Val(_name) \notin DictKeys(result)
                    THEN DictSet(result, Val(_name), json_loads(Val(config)))
                    ELSE result)

\* A variant of the loop of get_configuration_data that does not look at the
\* name passed.
RECURSIVE Requires_get_configuration_data_loop_unfiltered(_, _, _)
Requires_get_configuration_data_loop_unfiltered(name, i, result) ==
    IF i > Len(conversations) THEN result
    ELSE LET u == conversations[i]
             _name == remote[u]._name
             config == remote[u]._configuration_data
         IN  IF Gone(u)
             THEN Requires_get_configuration_data_loop_unfiltered(name, i + 1, result)
             ELSE Requires_get_configuration_data_loop_unfiltered(name, i + 1,
                    IF TruthyString(_name) /\ TruthyText(config)
                    THEN DictSet(result, Val(_name), json_loads(Val(config)))
                    ELSE result)

\* Lines 251-265, the loop of get_configuration_data from conversation i on.
RECURSIVE Requires_get_configuration_data_loop(_, _, _)
Requires_get_configuration_data_loop(name, i, result) ==
    IF i > Len(conversations) THEN result
    ELSE LET u == conversations[i]
             _name == remote[u]._name
             config == remote[u]._configuration_data
         IN  IF Gone(u) \/ (TruthyString(name) /\ _name # name)
             THEN Requires_get_configuration_data_loop(name, i + 1, result)
             ELSE Requires_get_configuration_data_loop(name, i + 1,
                    IF TruthyString(_name) /\ TruthyText(config)
                    THEN DictSet(result, Val(_name), json_loads(Val(config)))
                    ELSE result)

\* get_configuration_data(name), name being None or a string: a dict from
\* plugin name to the decoded configuration data.
Requires_get_configuration_data(name) ==
    Requires_get_configuration_data_loop(name, 1, << >>)

\* A variant of the loop of names that appends a name once only.
RECURSIVE Requires_names_loop_once(_, _)
Requires_names_loop_once(i, names) ==
    IF i > Len(conversations) THEN names
    ELSE LET u == conversations[i]
             name == remote[u]._name
             config == remote[u]._configuration_data
         IN  Requires_names_loop_once(i + 1,
                IF ~Gone(u) /\ TruthyString(name) /\ TruthyText(config)
                   /\ \A j \in DOMAIN names : names[j] # Val(name)
                THEN Append(names, Val(name))
                ELSE names)

\* Lines 194-204, the loop of names from conversation i on.
RECURSIVE Requires_names_loop(_, _)
Requires_names_loop(i, names) ==
    IF i > Len(conversations) THEN names
    ELSE LET u == conversations[i]
             name == remote[u]._name
             config == remote[u]._configuration_data
         IN  Requires_names_loop(i + 1,
                IF ~Gone(u) /\ TruthyString(name) /\ TruthyText(config)
                THEN Append(names, Val(name))
                ELSE names)

\* Lines 187-205, the names property: a list of plugin names.
Requires_names == Requires_names_loop(1, << >>)

\* The position of unit u in self.conversations().
Position(u) == CHOOSE i \in DOMAIN conversations : conversations[i] = u

\* The live conversations that have a name (a non-empty one) and
\* configuration data.
Named == { u \in Live : /\ TruthyString(remote[u]._name)
                        /\ remote[u]._configuration_data # None }

\* The last conversation in iteration order that carries the name n.
LastNamed(n) ==
    CHOOSE u \in Named :
        /\ Val(remote[u]._name) = n
        /\ \A w \in Named :
              Val(remote[w]._name) = n => Position(w) <= Position(u)

\* C10: get_configuration_data() without a filter returns a dict with exactly
\* one entry per distinct name among the live conversations that have a name
\* and configuration data; the entry of a name is the data whose envelope the
\* last conversation with that name (in iteration order) holds, so two
\* conversations with distinct names appear under their own keys.
C10_AmalgamationByName ==
    LET result == Requires_get_configuration_data(None)
    IN  /\ DictKeys(result) = { Val(remote[u]._name) : u \in Named }
        /\ Len(result) = Cardinality(DictKeys(result))
        /\ \A n \in DictKeys(result) :
              Some(json_dumps(DictGet(result, n)))
                  = remote[LastNamed(n)]._configuration_data

\* C10 witness: two live conversations with distinct names and distinct
\* configuration data, both in the result under their own names.
C10_Witness ==
    LET result == Requires_get_configuration_data(None)
    IN  \E u, w \in Named :
          /\ remote[u]._name # remote[w]._name
          /\ remote[u]._configuration_data # remote[w]._configuration_data
          /\ Len(result) = 2
          /\ Some(json_dumps(DictGet(result, Val(remote[u]._name))))
                = remote[u]._configuration_data
          /\ Some(json_dumps(DictGet(result, Val(remote[w]._name))))
                = remote[w]._configuration_data

\* Two live conversations carry the same name with different data.
C10_Collision ==
    \E u, w \in Named :
        /\ u # w
        /\ remote[u]._name = remote[w]._name
        /\ remote[u]._configuration_data # remote[w]._configuration_data

\* The live conversations named n that have configuration data.
NamedAs(n) == { u \in Named : remote[u]._name = Some(n) }

\* C11: for every non-empty name n, get_configuration_data(name=n) returns a
\* dict with no key other than n; it is empty exactly when no live
\* conversation named n has configuration data, and otherwise its one entry
\* is the data whose envelope a live conversation named n holds, whatever
\* other conversations are live.
C11_FilteredLookup ==
    \A n \in Names :
        LET result == Requires_get_configuration_data(Some(n))
        IN  /\ DictKeys(result) \subseteq { n }
            /\ (result = << >>) <=> (NamedAs(n) = {})
            /\ NamedAs(n) # {} =>
                  /\ Len(result) = 1
                  /\ \E u \in NamedAs(n) :
                        Some(json_dumps(DictGet(result, n)))
                            = remote[u]._configuration_data

\* C11 witness: two live conversations with distinct names both have
\* configuration data, and the lookup by one of the names returns that
\* conversation's data alone.
C11_Witness ==
    \E u, w \in Named :
        /\ remote[u]._name # remote[w]._name
        /\ remote[u]._configuration_data # remote[w]._configuration_data
        /\ LET result == Requires_get_configuration_data(remote[u]._name)
           IN  /\ Len(result) = 1
               /\ Some(json_dumps(DictGet(result, Val(remote[u]._name))))
                     = remote[u]._configuration_data

\* ------------------------------------- requires.py: set_authentication_data

\* A variant of lines 177-179 that also compares the order of the keys.
Requires_auth_unchanged_ordered(existing_auth, value) == existing_auth = value

\* Lines 177-179: the stored data has the keys of value and, key by key, its
\* values.
Requires_auth_unchanged(existing_auth, value) ==
    /\ DictKeys(existing_auth) = DictKeys(value)
    /\ \A i \in DOMAIN existing_auth :
          existing_auth[i][2] = DictGet(value, existing_auth[i][1])

\* A variant of lines 163-170 that does not look at the name.
Requires_auth_targets_any_name(u, name) == ~Gone(u)

\* Lines 163-170: the conversation is live and, with a name given, its remote
\* _name is that name.
Requires_auth_targets(u, name) ==
    /\ ~Gone(u)
    /\ name # None => name = remote[u]._name

\* A variant of lines 171-181 that never skips a write.
Requires_auth_stale_always(u, value) == TRUE

\* Lines 171-181: nothing is stored locally for the conversation, or what is
\* stored differs from value.
Requires_auth_stale(u, value) ==
    LET existing_auth_data == local[u]._authentication_data
    IN  \/ existing_auth_data = None
        \/ ~Requires_auth_unchanged(json_loads(Val(existing_auth_data)), value)

\* The loop's body for the conversation of unit u: whether it writes.
Requires_auth_writes(u, value, name) ==
    /\ \E i \in DOMAIN conversations : conversations[i] = u
    /\ Requires_auth_targets(u, name)
    /\ Requires_auth_stale(u, value)

\* set_authentication_data(value, name): the loop writes the envelope of
\* value to the local and the remote data of every conversation it targets
\* whose stored data differs.  A conversation is visited once, so the loop's
\* writes are independent of each other.
Requires_set_authentication_data(value, name) ==
    /\ \E text \in { Some(json_dumps(value)) } :
          /\ local' = [ u \in Units |->
                          IF Requires_auth_writes(u, value, name)
                          THEN [ local[u] EXCEPT !._authentication_data = text ]
                          ELSE local[u] ]
          /\ sent' = [ u \in Units |->
                          IF Requires_auth_writes(u, value, name)
                          THEN text ELSE sent[u] ]
    /\ rLast' = [ op |-> "set_authentication_data",
                  value |-> value,
                  name |-> name,
                  repeat |-> /\ rLast.op = "set_authentication_data"
                             /\ rLast.name = name
                             /\ DictEq(rLast.value, value) ]
    /\ UNCHANGED << rStates, conversations, scope, remote, pVars >>

NextAuth ==
    \/ \E u \in Units : Requires_joined(u)
    \/ \E u \in Units : ConversationGone(u)
    \/ \E u \in Units, n \in PluginNames : RemoteName(u, n)
    \/ \E value \in AuthValues, name \in TargetNames :
          Requires_set_authentication_data(value, name)

SpecAuth == Init /\ [][NextAuth]_vars

\* ------------------------------------ the claims on set_authentication_data

Pushed == rLast.op = "set_authentication_data"

\* The text holds the envelope of a dict equal to value.
Carries(text, value) == text # None /\ DictEq(json_loads(Val(text)), value)

\* C5: a set_authentication_data call that follows, with nothing in between,
\* a call with key/value-equal content and the same name writes nothing,
\* locally or remotely, and finds the content stored for every conversation
\* it targets; a call writes the envelope of its value, locally and remotely,
\* to each targeted conversation that does not hold the content yet.  So of
\* two such calls the first makes the one write and the second makes none.
C5_IdempotentPush ==
    [][ rLast'.op = "set_authentication_data" =>
        /\ \A u \in Live :
              ( /\ Requires_auth_targets(u, rLast'.name)
                /\ ~Carries(local[u]._authentication_data, rLast'.value) ) =>
              ( /\ local'[u]._authentication_data
                      = Some(json_dumps(rLast'.value))
                /\ sent'[u] = Some(json_dumps(rLast'.value)) )
        /\ ( /\ rLast.op = "set_authentication_data"
             /\ rLast'.repeat
             /\ rLast'.name = rLast.name
             /\ DictEq(rLast'.value, rLast.value) ) =>
           ( /\ local' = local
             /\ sent' = sent
             /\ \A u \in Live :
                   Requires_auth_targets(u, rLast.name) =>
                       Carries(local[u]._authentication_data, rLast.value) )
      ]_vars

\* C5 witness: a second call with equal content (here with the fields given
\* in the other order) has returned, and a live conversation holds, locally
\* and remotely, the text the first call wrote.
C5_Witness ==
    /\ Pushed
    /\ rLast.repeat
    /\ \E u \in Live :
          /\ Requires_auth_targets(u, rLast.name)
          /\ sent[u] = local[u]._authentication_data
          /\ Carries(sent[u], rLast.value)
          /\ sent[u] # Some(json_dumps(rLast.value))

\* C6: set_authentication_data(value, name) with a name that is not None
\* leaves the local and the remote _authentication_data of every conversation
\* whose remote _name differs from name (a conversation with no _name
\* included), and of every conversation that has gone away, as they were.
C6_NameTargeting ==
    [][ (rLast'.op = "set_authentication_data" /\ rLast'.name # None) =>
          \A u \in Units :
              (Gone(u) \/ remote[u]._name # rLast'.name) =>
                  /\ local'[u] = local[u]
                  /\ sent'[u] = sent[u] ]_vars

\* C6 witness: a call with a name has written to the live conversation of
\* that name and not to a live conversation of another name, which has no
\* authentication data.
C6_Witness ==
    /\ Pushed
    /\ rLast.name # None
    /\ \E u, w \in Live :
          /\ remote[u]._name = rLast.name
          /\ sent[u] = Some(json_dumps(rLast.value))
          /\ remote[w]._name # rLast.name
          /\ remote[w]._name # None
          /\ sent[w] = None
          /\ local[w]._authentication_data = None

\* C7 (as claimed): after set_authentication_data(value) without a name has
\* returned, the remote _authentication_data of every live conversation
\* carries value.
C7_PushReachesEveryLiveConversation ==
    (Pushed /\ rLast.name = None) =>
        \A u \in Live : Carries(sent[u], rLast.value)

\* C21 (as claimed): right after every update_status of the principal (a
\* joined, changed or departed hook) available is set exactly when names is
\* not empty, and names is not empty exactly when get_configuration_data()
\* is not empty, whatever the remote names and configuration data are, a
\* name that is the empty string included.
C21_AvailableIffNames ==
    RequiresRecomputed =>
        /\ ("available" \in rStates) <=> (Requires_names # << >>)
        /\ (Requires_names # << >>)
              <=> (Requires_get_configuration_data(None) # << >>)

\* The part of C21 the two queries keep: names is empty exactly when
\* get_configuration_data() is.
QueriesAgree ==
    (Requires_names # << >>)
        <=> (Requires_get_configuration_data(None) # << >>)

\* ------------------------------------------ the subordinate's hooks, again

\* C14: right after the subordinate's departed (or broken) hook none of
\* connected, available and changed is set, whatever was set before.
C14_DepartedClearsAll ==
    pLast.op = "departed"
        => pStates \cap { "connected", "available", "changed" } = {}

\* C14 witness: departed has run after authentication data had been
\* received and stored (so all three states had been set), and no state is
\* left.
C14_Witness ==
    /\ pLast.op = "departed"
    /\ pLocalAuth # None
    /\ pRemoteAuth # None
    /\ pStates = {}

\* C15: a joined or changed hook of the subordinate that finds no
\* authentication data on the relation leaves available, changed and the
\* stored _authentication_data as they were.
C15_NoEnvelopeNoEffect ==
    [][ (pLast'.op \in { "joined", "changed" } /\ pRemoteAuth = None)
          => /\ ("available" \in pStates') = ("available" \in pStates)
             /\ ("changed" \in pStates') = ("changed" \in pStates)
             /\ pLocalAuth' = pLocalAuth ]_vars

\* C15 witness: a hook has run with no authentication data on the relation
\* while available and changed were set and data was stored, and they still
\* are.
C15_Witness ==
    /\ ProvidesRecomputed
    /\ pRemoteAuth = None
    /\ { "available", "changed" } \subseteq pStates
    /\ pLocalAuth # None

\* ------------------------------------------------------- either role alone

\* The two roles run in different charms and share no state: a behaviour is
\* a behaviour of the subordinate or a behaviour of the principal.
NextRoles ==
    \/ rLast.op = "init" /\ NextProvides
    \/ pLast.op = "init" /\ NextRequires

SpecRoles == Init /\ [][NextRoles]_vars

\* C16: on either role clear_changed removes the changed state and nothing
\* else: the other states, the stored data and the relation data stay as
\* they were; when remove_state raises the missing-scope ValueError the call
\* returns normally and nothing at all has changed.
C16_ClearChangedOnly ==
    [][ /\ pLast'.op = "clear_changed"
           => /\ pStates' = IF pLast'.raised THEN pStates
                                             ELSE pStates \ { "changed" }
              /\ UNCHANGED << pRemoteAuth, pLocalAuth, pLocal, pSent >>
        /\ rLast'.op = "clear_changed"
           => /\ rStates' = IF rLast'.raised THEN rStates
                                             ELSE rStates \ { "changed" }
              /\ UNCHANGED << conversations, scope, remote, local, sent >>
      ]_vars

\* C16 witness: the principal's clear_changed has removed changed; connected
\* and available are still set and a conversation's cached availability is
\* still true.
C16_Witness ==
    /\ rLast.op = "clear_changed"
    /\ ~rLast.raised
    /\ rStates = { "connected", "available" }
    /\ \E u \in Live : local[u]._available

\* C19: on either role the changed state, once set, goes away only through
\* clear_changed, through the subordinate's departed hook, or through an
\* update_status of the principal that finds no live conversation; a joined
\* or changed hook that detects no change leaves a pending changed set.
C19_ChangedIsSticky ==
    [][ /\ ("changed" \in pStates /\ "changed" \notin pStates')
           => pLast'.op \in { "clear_changed", "departed" }
        /\ ("changed" \in rStates /\ "changed" \notin rStates')
           => \/ rLast'.op = "clear_changed"
              \/ /\ rLast'.op \in { "joined", "changed", "departed" }
                 /\ Live' = {}
      ]_vars

\* C19 witness: the subordinate's changed hook has run with no
\* authentication data on the relation, so it has detected no change, and
\* changed, set earlier, is still set.
C19_Witness ==
    /\ pLast.op = "changed"
    /\ pRemoteAuth = None
    /\ "connected" \in pStates
    /\ "changed" \in pStates

\* ------------------------------------ a plugin's data on its way to manila

\* The unit of the subordinate among the principal's remote units.
PluginUnit == "plugin/0"

\* The relation delivers to the principal what the subordinate has written
\* with set_remote: the principal's conversation with that unit reads it.
Deliver_plugin ==
    /\ ~Gone(PluginUnit)
    /\ remote' = [ remote EXCEPT ![PluginUnit] = pSent ]
    /\ rLast' = Op("environment")
    /\ UNCHANGED << rStates, conversations, scope, local, sent, pVars >>

\* The subordinate sets its name and configuration data, the relation
\* delivers them, and the other units of the principal's relation write
\* theirs.
NextDelivery ==
    \/ Provides_joined
    \/ \E n \in PluginNames : Provides_set_name(n)
    \/ \E data \in DataValues : Provides_set_configuration_data(data)
    \/ \E u \in Units : Requires_joined(u)
    \/ Deliver_plugin
    \/ \E u \in Units \ { PluginUnit }, n \in PluginNames : RemoteName(u, n)
    \/ \E u \in Units \ { PluginUnit }, c \in { Some(e) : e \in ConfigEnvelopes } : RemoteConfiguration(u, c)

SpecDelivery == Init /\ [][NextDelivery]_vars

\* Every key of the dict is a str.
StrKeyed(d) == DictKeys(d) \cap NotStr = {}

\* Right after the configuration_data setter has run with pLast.data, the
\* getter returns a dict equal to it and the local and the remote field hold
\* one and the same envelope.
RoundTripHolds ==
    LET got == Provides_configuration_data(pLocal)
    IN  /\ got # None
        /\ DictEq(Val(got), pLast.data)
        /\ pLocal._configuration_data # None
        /\ pLocal._configuration_data = pSent._configuration_data

\* Nothing has been set yet (the setter writes the remote field every time).
NothingSet == pSent._configuration_data = None

\* C12 as stated: whatever data the configuration_data setter is called with,
\* right after it the getter returns a value equal to the data and the local
\* and remote _configuration_data hold the same envelope; before any set the
\* getter returns None.
C12_RoundTripAnyData ==
    /\ NothingSet => Provides_configuration_data(pLocal) = None
    /\ pLast.op = "configuration_data" => RoundTripHolds

\* C12 amended: the same for data whose keys are all of type str.
C12_RoundTripStrKeyed ==
    /\ NothingSet => Provides_configuration_data(pLocal) = None
    /\ (pLast.op = "configuration_data" /\ StrKeyed(pLast.data))
          => RoundTripHolds

\* C12 witness: the setter has just run with a dict of two members, one of
\* them the boolean, and the getter returns an equal dict.
C12_Witness ==
    /\ pLast.op = "configuration_data"
    /\ Len(pLast.data) = 2
    /\ PyTrue \in { pLast.data[i][2] : i \in DOMAIN pLast.data }
    /\ RoundTripHolds

\* The subordinate has set a name and then configuration data (pLast.data),
\* and the principal's live conversation with its unit holds both as sent.
SetAndDelivered ==
    /\ pLast.op = "configuration_data"
    /\ Provides_name(pLocal) # None
    /\ ~Gone(PluginUnit)
    /\ remote[PluginUnit]._name = Provides_name(pLocal)
    /\ remote[PluginUnit] = pSent

\* The names property holds the name n.
InNames(n) == \E i \in DOMAIN Requires_names : Requires_names[i] = n

\* A conversation after the subordinate's in iteration order carries the
\* subordinate's name and has configuration data.
NameTakenLater ==
    \E w \in Named :
        /\ remote[w]._name = remote[PluginUnit]._name
        /\ Position(w) > Position(PluginUnit)

\* C13 as stated: once the subordinate has set a non-empty name and
\* configuration data and both have been delivered to the principal's
\* conversation with its unit, get_configuration_data() maps the name to a
\* value equal to the data and names holds the name.
C13_DeliveryAnyData ==
    SetAndDelivered =>
        LET n == Val(Provides_name(pLocal))
            result == Requires_get_configuration_data(None)
        IN  /\ InNames(n)
            /\ n \in DictKeys(result)
            /\ DictEq(DictGet(result, n), pLast.data)

\* C13 amended: names holds the name and get_configuration_data() has an
\* entry for it; the entry equals the data when the data's keys are all
\* strings and no conversation later in iteration order carries the same
\* name with configuration data.
C13_DeliveryStrKeyedLastOfName ==
    SetAndDelivered =>
        LET n == Val(Provides_name(pLocal))
            result == Requires_get_configuration_data(None)
        IN  /\ InNames(n)
            /\ n \in DictKeys(result)
            /\ (StrKeyed(pLast.data) /\ ~NameTakenLater)
                  => DictEq(DictGet(result, n), pLast.data)

\* C13 witness: the subordinate's name and two-member data have been
\* delivered while another live conversation, later in iteration order,
\* carries another name with configuration data; the subordinate's entry
\* equals its data.
C13_Witness ==
    /\ SetAndDelivered
    /\ Len(pLast.data) = 2
    /\ \E w \in Named :
          /\ Position(w) > Position(PluginUnit)
          /\ remote[w]._name # remote[PluginUnit]._name
    /\ DictEq(DictGet(Requires_get_configuration_data(None),
                      Val(Provides_name(pLocal))), pLast.data)

\* ------------------------------------------------ the principal, again

\* The number of conversations of Named up to and including u in iteration
\* order.
Rank(u) == Cardinality({ w \in Named : Position(w) <= Position(u) })

\* C17: names is the list of the remote names of the live conversations
\* that have both a name and configuration data, one entry per such
\* conversation (a name two of them share comes twice), in the order of
\* self.conversations(), and nothing else.
C17_NamesInOrder ==
    /\ Len(Requires_names) = Cardinality(Named)
    /\ \A u \in Named : Requires_names[Rank(u)] = Val(remote[u]._name)

\* C17 witness: two live conversations share a name and both have
\* configuration data: names holds the name twice.
C17_Witness ==
    /\ \E u, w \in Named : u # w /\ remote[u]._name = remote[w]._name
    /\ Len(Requires_names) = 2
    /\ Requires_names[1] = Requires_names[2]

\* C18: right after every update_status of the principal (a joined, changed
\* or departed hook) the cached _available of each live conversation equals
\* its availability (remote name and configuration data both not None), and
\* changed is set if the cached value of some live conversation differed
\* from its availability when the hook began.
C18_CacheFollowsAvailability ==
    [][ rLast'.op \in { "joined", "changed", "departed" }
          => /\ \A u \in Live' :
                   local'[u]._available = (u \in LiveAvailable')
             /\ (\E u \in Live' :
                   local[u]._available # (u \in LiveAvailable'))
                   => "changed" \in rStates' ]_vars

\* C18 witness: a hook has run with two live conversations, one available
\* and one not; their caches say so and changed is set.
C18_Witness ==
    /\ RequiresRecomputed
    /\ \E u, w \in Live :
          /\ u \in LiveAvailable /\ local[u]._available
          /\ w \notin LiveAvailable /\ ~local[w]._available
    /\ "changed" \in rStates

\* ------------------------------- manila's credentials on their way to a plugin

\* The relation delivers to the subordinate what the principal's conversation
\* with its unit has written with set_remote.
Deliver_auth ==
    /\ pRemoteAuth' = sent[PluginUnit]
    /\ pLast' = [ op |-> "remote" ]
    /\ UNCHANGED << pStates, pLocalAuth, pLocal, pSent, rVars >>

\* The principal joins the subordinate's unit and pushes authentication data
\* to every conversation, the relation delivers it, and the subordinate's
\* hooks run and its charm clears changed.
NextCompose ==
    \/ Requires_joined(PluginUnit)
    \/ \E value \in AuthValues : Requires_set_authentication_data(value, None)
    \/ Deliver_auth
    \/ Provides_joined
    \/ Provides_changed
    \/ Provides_clear_changed

SpecCompose == Init /\ [][NextCompose]_vars

\* The subordinate has seen and stored the text the principal's conversation
\* with its unit last wrote, that text is what the relation holds, and
\* changed has been cleared.
Settled ==
    /\ ~Gone(PluginUnit)
    /\ pLocalAuth # None
    /\ sent[PluginUnit] = pLocalAuth
    /\ pRemoteAuth = pLocalAuth
    /\ "changed" \notin pStates

\* The step is a call of set_authentication_data whose content is not the
\* content the subordinate has stored.
PushOfOtherContent ==
    /\ pVars' = pVars
    /\ rLast'.op = "set_authentication_data"
    /\ ~DictEq(rLast'.value, json_loads(Val(pLocalAuth)))

\* C20: in the composed system, once the subordinate has seen content X,
\* stored it and had changed cleared, no step other than a push of content
\* different from X ends this: further set_authentication_data calls with X
\* (its keys in any order), deliveries and hooks of the subordinate leave
\* changed unset and X stored.
C20_RepeatedPushRaisesNoChange ==
    [][ (Settled /\ ~PushOfOtherContent) => Settled' ]_vars

\* C20 witness: with X stored and changed cleared, X has been pushed again
\* with its keys in another order than in the text sent, and the
\* subordinate's changed hook has run: changed is still unset.
C20_Witness ==
    /\ Settled
    /\ rLast.op = "set_authentication_data"
    /\ DictEq(rLast.value, json_loads(Val(pLocalAuth)))
    /\ json_dumps(rLast.value) # Val(pLocalAuth)
    /\ pLast.op = "changed"

====
